---- MODULE Spec2Model ----
(***************************************************************************)
(* Model of pr2_calibration_estimation/opt_runner.py: the ErrorCalc        *)
(* residual / Jacobian engine and the opt_runner driver.                   *)
(*                                                                         *)
(* Numbers are integers counted in units of the finite-difference step:    *)
(* the source's epsilon = 1e-6 is one unit, so x0 + dx and (f - f0)/eps    *)
(* are exact.  Vectors are sequences, matrices are sequences of rows.      *)
(***************************************************************************)
EXTENDS Integers, Sequences, FiniteSets, TLC

(* ------------------------------ bounds --------------------------------- *)
\* number of entries of the full parameter vector (robot_params.deflate())
NumParams == 2
\* free-parameter values passed by a caller range over 0..MaxVal
MaxVal == 1

(* ------------------------- program constants --------------------------- *)
\* numpy.reshape(full_pose_vec, [-1,6]): width of a pose block
PoseLen == 6
\* epsilon = 1e-6 in both finite-difference loops, the unit of the model
Epsilon == 1

(* ------------------------------ fixture -------------------------------- *)
\* the multisensors list handed to ErrorCalc: two Observation Groups, the
\* first with two sensors, the second with one
Multisensors ==
    << [checkerboard |-> 1, sensors |-> <<1, 2>>],
       [checkerboard |-> 2, sensors |-> <<3>>] >>

SensorIds == {1, 2, 3}

\* sensor.get_residual_length() of each sensor
SensorResidualLength == <<1, 2, 2>>

\* sensor.build_sparsity_dict() fed to robot_params.calc_free(): the set of
\* full-vector indices the sensor flags
SensorSparsity == << {1}, {2}, {1, 2} >>

\* robot_params.deflate() at construction
RobotParams0 == [p \in 1..NumParams |-> 10 + p]

NumGroups == Len(Multisensors)

(* ------------------------------ helpers -------------------------------- *)
RECURSIVE SumSeq(_)
SumSeq(s) == IF s = <<>> THEN 0 ELSE Head(s) + SumSeq(Tail(s))

RECURSIVE Flatten(_)
Flatten(ss) == IF ss = <<>> THEN <<>> ELSE Head(ss) \o Flatten(Tail(ss))

\* numpy.zeros(n) / numpy.zeros([r, c])
Zeros(n) == [k \in 1..n |-> 0]
ZerosMat(r, c) == [a \in 1..r |-> Zeros(c)]

\* numpy.where(mask)[0], as 1-based indices in increasing order
Where(mask) == SelectSeq([p \in 1..Len(mask) |-> p], LAMBDA p : mask[p])

\* Jt.transpose() of a matrix with r rows and c columns
Transpose(m, r, c) == [a \in 1..c |-> [b \in 1..r |-> m[b][a]]]

\* x0 + dx
VecAdd(a, b) == [k \in 1..Len(a) |-> a[k] + b[k]]

\* (f - f0) / epsilon
DiffQuot(f, f0) == [k \in 1..Len(f0) |-> (f[k] - f0[k]) \div Epsilon]

VARIABLES
    free,       \* self._free_list
    expanded,   \* self._expanded_params
    robot,      \* self._robot_params, as the vector last inflated into it
    scfg,       \* per sensor, the model vector of its last update_config
    pc,         \* position of the engine call in progress
    vec,        \* opt_all_vec of the call in progress
    optp,       \* opt_param_vec
    poseArr,    \* full_pose_arr
    J,          \* the Jacobian under construction
    gi,         \* index i of the Observation Group loop
    sk,         \* index k of the sensor loop
    cols,       \* indices still to perturb in the running loop
    x0,         \* base vector of the running loop
    dx,         \* perturbation vector of the running loop
    f0,         \* base residual of the running loop
    Jt,         \* transposed Jacobian of the running loop
    lastEval,   \* the perturbed residual evaluation of the loop pass just made
    touched,    \* the running / last call wrote the model or a sensor
    ret,        \* outcome of the last completed call
    lastErr,    \* last calculate_error result not yet followed by another vector
    rpc,        \* position of opt_runner
    args        \* the arguments opt_runner was called with

vars == << free, expanded, robot, scfg, pc, vec, optp, poseArr, J, gi, sk,
           cols, x0, dx, f0, Jt, lastEval, touched, ret, lastErr, rpc, args >>

frame == << vec, optp, poseArr, J, gi, sk, cols, x0, dx, f0, Jt >>

(* ------------------- external collaborators (contract) ----------------- *)
\* a weighted sum that changes whenever one entry of v changes
RECURSIVE WeightedFrom(_, _)
WeightedFrom(v, k) == IF k > Len(v) THEN 0 ELSE k * v[k] + WeightedFrom(v, k + 1)
Weighted(v) == WeightedFrom(v, 1)

\* SingleTransform(pose).transform * checkerboards[cb].generate_points():
\* the target points are determined by the pose 6-vector, the checkerboard
\* and the model the checkerboard geometry is read from
TargetPoints(pose, cb, model) == [pose |-> pose, cb |-> cb, model |-> model]

\* sensor.compute_residual(points): a vector of the sensor's declared length,
\* a function of the config pulled at the sensor's last update_config and of
\* the points; it depends on every entry, so a skipped refresh is visible
SensorResidual(s, cfg, pts) ==
    [q \in 1..SensorResidualLength[s] |->
        q + 3 * Weighted(cfg) + Weighted(pts.model) + 50 * pts.cb
          + Weighted(pts.pose)]

\* multisensor.compute_residual(points): sensor residuals in sensor order
MSResidual(g, cfgs, pts) ==
    LET ss == Multisensors[g].sensors
    IN  Flatten([k \in 1..Len(ss) |-> SensorResidual(ss[k], cfgs[ss[k]], pts)])

\* multisensor.get_residual_length()
MSResidualLength(g) ==
    LET ss == Multisensors[g].sensors
    IN  SumSeq([k \in 1..Len(ss) |-> SensorResidualLength[ss[k]]])

\* multisensor.update_config(robot_params): every sensor of the group pulls
\* its config from the model
MSUpdateConfig(g, cfgs, model) ==
    LET ss == Multisensors[g].sensors
    IN  [s \in SensorIds |->
            IF \E k \in 1..Len(ss) : ss[k] = s THEN model ELSE cfgs[s]]

(* ------------------------------ ErrorCalc ------------------------------ *)
\* sum(self._free_list)
opt_param_len == Len(Where(free))

\* split_all: opt_all_vec[0:opt_param_len]
SplitParam(v) ==
    IF Len(v) <= opt_param_len THEN v ELSE SubSeq(v, 1, opt_param_len)

\* split_all: opt_all_vec[opt_param_len:]
SplitPoseVec(v) ==
    IF Len(v) <= opt_param_len THEN <<>>
    ELSE SubSeq(v, opt_param_len + 1, Len(v))

\* numpy.reshape(full_pose_vec, [-1,6]) raises ValueError unless the length
\* is a multiple of 6; an empty vector reshapes to zero rows
ReshapeOk(pv) == Len(pv) % PoseLen = 0

Reshape(pv) ==
    [k \in 1..(Len(pv) \div PoseLen) |->
        SubSeq(pv, PoseLen * (k - 1) + 1, PoseLen * k)]

\* full_param_vec[numpy.where(self._free_list), 0] = opt_param_vec succeeds
\* when the value has one entry per free position, or a single entry that
\* numpy broadcasts to all of them; otherwise numpy raises ValueError
AssignOk(sub) == Len(sub) = opt_param_len \/ Len(sub) = 1

calculate_full_param_vec(sub) ==
    LET idx == Where(free)
    IN  [p \in 1..Len(expanded) |->
            IF free[p]
            THEN LET k == CHOOSE k \in 1..Len(idx) : idx[k] = p
                 IN  IF Len(sub) = 1 THEN sub[1] ELSE sub[k]
            ELSE expanded[p]]

\* the same without copy(): the cached baseline itself is written
expanded_params_aliased(sub) == calculate_full_param_vec(sub)

\* self._expanded_params after calculate_full_param_vec: the assignment is
\* made on a copy() of it
expanded_params_after(sub) == expanded

\* residual length of every Observation Group
ms_r_len == [g \in 1..NumGroups |-> MSResidualLength(g)]

\* cumsum(ms_r_len)[i] and [0] + ms_end_row[:-1], 0-based row bounds
ms_end_row(i) == SumSeq(SubSeq(ms_r_len, 1, i))
ms_start_row(i) == IF i = 1 THEN 0 ELSE ms_end_row(i - 1)

\* the column bound without the cumsum: every group gets the first block
ms_end_col_first_block(i, nparam) == PoseLen + nparam

\* cumsum([6]*len(multisensors)) + len(opt_param_vec), and x-6
ms_end_col(i, nparam) == PoseLen * i + nparam
ms_start_col(i, nparam) == ms_end_col(i, nparam) - PoseLen

\* residual lengths of the sensors of group g and their 0-based row bounds
s_r_len(g) ==
    LET ss == Multisensors[g].sensors
    IN  [k \in 1..Len(ss) |-> SensorResidualLength[ss[k]]]
s_end_row(g, k) == SumSeq(SubSeq(s_r_len(g), 1, k))
s_start_row(g, k) == IF k = 1 THEN 0 ELSE s_end_row(g, k - 1)

\* the same ignoring the sensor's sparsity: every free column is flagged
opt_sparsity_vec_all_free(s) == [k \in 1..opt_param_len |-> TRUE]

\* full_sparsity_vec[numpy.where(self._free_list)]
opt_sparsity_vec(s) ==
    LET idx == Where(free)
    IN  [k \in 1..Len(idx) |-> idx[k] \in SensorSparsity[s]]

\* J[r0:r1, c0:c1] = block (0-based, end-exclusive bounds as in the source)
AssignBlock(m, r0, r1, c0, c1, block) ==
    [a \in 1..Len(m) |->
        [b \in 1..Len(m[a]) |->
            IF a > r0 /\ a <= r1 /\ b > c0 /\ b <= c1
            THEN block[a - r0][b - c0] ELSE m[a][b]]]

(* --------------------------- call bookkeeping -------------------------- *)
NoRet == [kind |-> "none", arg |-> <<>>, value |-> <<>>, exc |-> ""]
Raised(v, e) == [kind |-> "raise", arg |-> v, value |-> <<>>, exc |-> e]
Returned(k, v, x) == [kind |-> k, arg |-> v, value |-> x, exc |-> ""]

NoArgs == [params |-> <<>>, free |-> <<>>, pose |-> <<>>, pose_cols |-> 0]

NoErr == [set |-> FALSE, arg |-> <<>>, value |-> <<>>, again |-> FALSE]
NoEval == [loop |-> "none", i |-> 0, x0 |-> <<>>, test |-> <<>>,
           model |-> <<>>, cfg |-> <<>>]

\* lastErr once a call with vector v has started
KeepErr(v) == IF lastErr.set /\ lastErr.arg = v THEN lastErr ELSE NoErr

BlankFrame ==
    /\ vec' = <<>> /\ optp' = <<>> /\ poseArr' = <<>> /\ J' = <<>>
    /\ gi' = 0 /\ sk' = 0 /\ cols' = <<>> /\ x0' = <<>> /\ dx' = <<>>
    /\ f0' = <<>> /\ Jt' = <<>>

(* --------------------------- caller's inputs --------------------------- *)
\* pose guesses of n groups: all at the origin, or group g shifted by g-1
\* along the first axis
PoseArrays(n) ==
    { [g \in 1..n |-> Zeros(PoseLen)],
      [g \in 1..n |-> [k \in 1..PoseLen |-> IF k = 1 THEN g - 1 ELSE 0]] }

\* free-parameter prefixes a caller passes: all entries equal, or all zero
\* but one
ParamPrefixes ==
    { [k \in 1..opt_param_len |-> a] : a \in 0..MaxVal }
    \cup { [k \in 1..opt_param_len |-> IF k = j THEN MaxVal ELSE 0] :
              j \in 1..opt_param_len }

\* vectors made of a free-parameter prefix and whole pose blocks: as many
\* blocks as Observation Groups, fewer (down to none), or one more
BlockVecs ==
    { pre \o Flatten(pa) :
        pre \in ParamPrefixes,
        pa \in UNION { PoseArrays(n) : n \in 0..(NumGroups + 1) } }

\* vectors whose pose suffix is one entry longer than whole blocks
RaggedVecs == { Zeros(opt_param_len + PoseLen * n + 1) : n \in 0..(NumGroups + 1) }

\* vectors shorter than the free-parameter prefix
ShortVecs ==
    { SubSeq(pre, 1, n) :
        pre \in ParamPrefixes, n \in 0..opt_param_len }

\* every vector a caller may pass: well-formed, too long, too short, ragged
InputVecs == BlockVecs \cup RaggedVecs \cup ShortVecs

(* --------------------------- calculate_error --------------------------- *)
Inflate(w, full) == [w EXCEPT !.robot = full]

RECURSIVE UpdateGroups(_, _)
UpdateGroups(w, g) ==
    IF g > NumGroups THEN w
    ELSE UpdateGroups([w EXCEPT !.scfg = MSUpdateConfig(g, w.scfg, w.robot)],
                      g + 1)

\* the same in the other order: sensors refresh from the model not yet inflated
calculate_error_update_first(w, full) == Inflate(UpdateGroups(w, 1), full)

\* lines 73-77: inflate the model, then update every multisensor's config
calculate_error_update(w, full) == UpdateGroups(Inflate(w, full), 1)

\* zip(self._multisensors, list(full_pose_arr)) stops at the shorter one
ZipLen(pa) == IF Len(pa) < NumGroups THEN Len(pa) ELSE NumGroups

\* the whole of calculate_error on vector v: outcome and state left behind
calculate_error(v) ==
    LET sub  == SplitParam(v)
        pv   == SplitPoseVec(v)
        same == [robot |-> robot, scfg |-> scfg]
    IN  IF ~ReshapeOk(pv)
        THEN [ret |-> Raised(v, "ValueError"), w |-> same,
              expanded |-> expanded, touched |-> FALSE]
        ELSE IF ~AssignOk(sub)
        THEN [ret |-> Raised(v, "ValueError"), w |-> same,
              expanded |-> expanded, touched |-> FALSE]
        ELSE LET full == calculate_full_param_vec(sub)
                 w    == calculate_error_update(same, full)
                 pa   == Reshape(pv)
                 r_list == [g \in 1..ZipLen(pa) |->
                              MSResidual(g, w.scfg,
                                  TargetPoints(pa[g], Multisensors[g].checkerboard,
                                               w.robot))]
             IN  [ret |-> IF r_list = <<>> THEN Raised(v, "ValueError")
                          ELSE Returned("residual", v, Flatten(r_list)),
                  w |-> w, expanded |-> expanded_params_after(sub),
                  touched |-> TRUE]

CalcError(v) ==
    /\ pc = "idle"
    /\ LET out == calculate_error(v)
       IN  /\ ret' = out.ret
           /\ robot' = out.w.robot
           /\ scfg' = out.w.scfg
           /\ expanded' = out.expanded
           /\ touched' = out.touched
           /\ lastErr' = IF out.ret.kind = "residual"
                         THEN [set |-> TRUE, arg |-> v, value |-> out.ret.value,
                               again |-> lastErr.set /\ lastErr.arg = v]
                         ELSE KeepErr(v)
    /\ lastEval' = NoEval
    /\ UNCHANGED << free, pc, frame, rpc, args >>

\* a direct call of calculate_full_param_vec by a caller
CallFullParamVec(sub) ==
    /\ pc = "idle"
    /\ AssignOk(sub)
    /\ ret' = Returned("full_vec", sub, calculate_full_param_vec(sub))
    /\ expanded' = expanded_params_after(sub)
    /\ touched' = FALSE
    /\ lastErr' = NoErr
    /\ lastEval' = NoEval
    /\ UNCHANGED << free, robot, scfg, pc, frame, rpc, args >>

(* -------------------------- calculate_jacobian ------------------------- *)
\* the sensor and checkerboard of the loops' current position
CurSensor == Multisensors[gi].sensors[sk]
CurBoard == Multisensors[gi].checkerboard

\* a raise that ends the call in progress
JacRaise(e) ==
    /\ ret' = Raised(vec, e)
    /\ pc' = "idle"
    /\ BlankFrame

\* lines 94-106: split the vector, allocate J
JacBegin(v) ==
    /\ pc = "idle"
    /\ lastErr' = KeepErr(v)
    /\ lastEval' = NoEval
    /\ touched' = FALSE
    /\ IF ~ReshapeOk(SplitPoseVec(v))
       THEN /\ ret' = Raised(v, "ValueError")
            /\ UNCHANGED << pc, frame >>
       ELSE /\ ret' = NoRet
            /\ pc' = "jac_group"
            /\ vec' = v
            /\ optp' = SplitParam(v)
            /\ poseArr' = Reshape(SplitPoseVec(v))
            /\ J' = ZerosMat(SumSeq(ms_r_len), Len(v))
            /\ gi' = 1
            /\ UNCHANGED << sk, cols, x0, dx, f0, Jt >>
    /\ UNCHANGED << free, expanded, robot, scfg, rpc, args >>

\* lines 109-117: loop head of a group, target_pose_T from full_pose_arr[i,:]
JacGroup ==
    /\ pc = "jac_group"
    /\ gi <= NumGroups
    /\ IF gi > Len(poseArr)
       THEN JacRaise("IndexError")
       ELSE /\ pc' = "jac_sensor"
            /\ sk' = 1
            /\ UNCHANGED << ret, vec, optp, poseArr, J, gi, cols, x0, dx, f0, Jt >>
    /\ UNCHANGED << free, expanded, robot, scfg, lastEval, touched, lastErr,
                    rpc, args >>

\* line 130: return J
JacReturn ==
    /\ pc = "jac_group"
    /\ gi > NumGroups
    /\ ret' = Returned("jacobian", vec, J)
    /\ pc' = "idle"
    /\ BlankFrame
    /\ UNCHANGED << free, expanded, robot, scfg, lastEval, touched, lastErr,
                    rpc, args >>

\* single_sensor_params_jacobian, lines 142-167: sparsity, base evaluation
JacSensorBase ==
    /\ pc = "jac_sensor"
    /\ IF ~AssignOk(optp)
       THEN /\ JacRaise("ValueError")
            /\ UNCHANGED << expanded, robot, scfg, touched >>
       ELSE LET full == calculate_full_param_vec(optp)
                pts  == TargetPoints(poseArr[gi], CurBoard, full)
            IN  /\ robot' = full
                /\ scfg' = [scfg EXCEPT ![CurSensor] = full]
                /\ expanded' = expanded_params_after(optp)
                /\ touched' = TRUE
                /\ x0' = optp
                /\ f0' = SensorResidual(CurSensor, full, pts)
                /\ Jt' = ZerosMat(Len(optp), SensorResidualLength[CurSensor])
                /\ dx' = Zeros(Len(optp))
                /\ cols' = Where(opt_sparsity_vec(CurSensor))
                /\ pc' = "jac_perturb"
                /\ UNCHANGED << ret, vec, optp, poseArr, J, gi, sk >>
    /\ lastEval' = NoEval
    /\ UNCHANGED << free, lastErr, rpc, args >>

\* the same without the restore: perturbations accumulate
dx_kept(d, i) == d

\* dx[i] = 0.0 at the end of a loop body (lines 177 and 201)
dx_restored(d, i) == [d EXCEPT ![i] = 0]

\* single_sensor_params_jacobian, lines 169-177: one pass of the loop
JacSensorPerturb ==
    /\ pc = "jac_perturb"
    /\ cols # <<>>
    /\ LET i    == Head(cols)
           dx1  == [dx EXCEPT ![i] = Epsilon]
           test == VecAdd(x0, dx1)
           full == calculate_full_param_vec(test)
           cfgs == [scfg EXCEPT ![CurSensor] = full]
           pts  == TargetPoints(poseArr[gi], CurBoard, full)
           f    == SensorResidual(CurSensor, cfgs[CurSensor], pts)
       IN  /\ robot' = full
           /\ scfg' = cfgs
           /\ expanded' = expanded_params_after(test)
           /\ Jt' = [Jt EXCEPT ![i] = DiffQuot(f, f0)]
           /\ dx' = dx_restored(dx1, i)
           /\ cols' = Tail(cols)
           /\ lastEval' = [loop |-> "param", i |-> i, x0 |-> x0, test |-> test,
                           model |-> pts.model, cfg |-> cfgs[CurSensor]]
    /\ UNCHANGED << free, pc, vec, optp, poseArr, J, gi, sk, x0, f0, touched,
                    ret, lastErr, rpc, args >>

\* lines 178-179 and 120-121: J_s_params[:,:] = Jt.transpose()
JacSensorReturn ==
    /\ pc = "jac_perturb"
    /\ cols = <<>>
    /\ LET r0 == ms_start_row(gi) + s_start_row(gi, sk)
           r1 == ms_start_row(gi) + s_end_row(gi, sk)
       IN  J' = AssignBlock(J, r0, r1, 0, Len(optp),
                            Transpose(Jt, Len(x0), Len(f0)))
    /\ IF sk < Len(Multisensors[gi].sensors)
       THEN sk' = sk + 1 /\ pc' = "jac_sensor"
       ELSE sk' = sk /\ pc' = "jac_pose"
    /\ lastEval' = NoEval
    /\ UNCHANGED << free, expanded, robot, scfg, vec, optp, poseArr, gi, cols,
                    x0, dx, f0, Jt, touched, ret, lastErr, rpc, args >>

\* the same without the inflate: the model stays as the parameter loop left it
pose_jacobian_model_kept(sub) == robot

\* multisensor_pose_jacobian, lines 183-184: the model inflated at entry
pose_jacobian_model(sub) == calculate_full_param_vec(sub)

\* multisensor_pose_jacobian, lines 183-194: refresh, base evaluation
JacPoseBase ==
    /\ pc = "jac_pose"
    /\ LET full == pose_jacobian_model(optp)
           cfgs == MSUpdateConfig(gi, scfg, full)
       IN  /\ robot' = full
           /\ scfg' = cfgs
           /\ expanded' = expanded_params_after(optp)
           /\ x0' = poseArr[gi]
           /\ f0' = MSResidual(gi, cfgs, TargetPoints(poseArr[gi], CurBoard, full))
           /\ Jt' = ZerosMat(PoseLen, MSResidualLength(gi))
           /\ dx' = Zeros(PoseLen)
           /\ cols' = [k \in 1..PoseLen |-> k]
    /\ pc' = "jac_pose_perturb"
    /\ lastEval' = NoEval
    /\ UNCHANGED << free, vec, optp, poseArr, J, gi, sk, touched, ret, lastErr,
                    rpc, args >>

\* multisensor_pose_jacobian, lines 196-201: one pass of the loop
JacPosePerturb ==
    /\ pc = "jac_pose_perturb"
    /\ cols # <<>>
    /\ LET i    == Head(cols)
           dx1  == [dx EXCEPT ![i] = Epsilon]
           test == VecAdd(x0, dx1)
           pts  == TargetPoints(test, CurBoard, robot)
           f    == MSResidual(gi, scfg, pts)
       IN  /\ Jt' = [Jt EXCEPT ![i] = DiffQuot(f, f0)]
           /\ dx' = dx_restored(dx1, i)
           /\ cols' = Tail(cols)
           /\ lastEval' = [loop |-> "pose", i |-> i, x0 |-> x0, test |-> test,
                           model |-> pts.model, cfg |-> <<>>]
    /\ UNCHANGED << free, expanded, robot, scfg, pc, vec, optp, poseArr, J, gi,
                    sk, x0, f0, touched, ret, lastErr, rpc, args >>

\* lines 202-203 and 124-127: J_ms_pose[:,:] = Jt.transpose()
JacPoseReturn ==
    /\ pc = "jac_pose_perturb"
    /\ cols = <<>>
    /\ J' = AssignBlock(J, ms_start_row(gi), ms_end_row(gi),
                        ms_start_col(gi, Len(optp)), ms_end_col(gi, Len(optp)),
                        Transpose(Jt, Len(x0), Len(f0)))
    /\ gi' = gi + 1
    /\ pc' = "jac_group"
    /\ lastEval' = NoEval
    /\ UNCHANGED << free, expanded, robot, scfg, vec, optp, poseArr, sk, cols,
                    x0, dx, f0, Jt, touched, ret, lastErr, rpc, args >>

(* ---------------------------- specification ---------------------------- *)
FreeMasks == [1..NumParams -> BOOLEAN]

\* the state after ErrorCalc.__init__ (lines 48-52)
Init ==
    /\ free \in FreeMasks
    /\ expanded = RobotParams0
    /\ robot = RobotParams0
    /\ scfg = [s \in SensorIds |-> <<>>]
    /\ pc = "idle"
    /\ vec = <<>> /\ optp = <<>> /\ poseArr = <<>> /\ J = <<>>
    /\ gi = 0 /\ sk = 0 /\ cols = <<>> /\ x0 = <<>> /\ dx = <<>>
    /\ f0 = <<>> /\ Jt = <<>>
    /\ lastEval = NoEval
    /\ touched = FALSE
    /\ ret = NoRet
    /\ lastErr = NoErr
    /\ rpc = "none"
    /\ args = NoArgs

Next ==
    \/ \E v \in InputVecs : CalcError(v)
    \/ \E v \in InputVecs : JacBegin(v)
    \/ \E sub \in [1..opt_param_len -> 0..MaxVal] : CallFullParamVec(sub)
    \/ JacGroup
    \/ JacReturn
    \/ JacSensorBase
    \/ JacSensorPerturb
    \/ JacSensorReturn
    \/ JacPoseBase
    \/ JacPosePerturb
    \/ JacPoseReturn

Spec == Init /\ [][Next]_vars

TypeOK == pc \in {"idle", "jac_group", "jac_sensor", "jac_perturb", "jac_pose",
                  "jac_pose_perturb"}

(* ------------------------------ opt_runner ----------------------------- *)
\* names bound at module level: the imports of lines 35-42 and the two
\* definitions of the file
ModuleGlobals ==
    { "roslib", "RobotParams", "SingleTransform", "numpy", "array", "matrix",
      "zeros", "cumsum", "concatenate", "scipy", "sys", "ErrorCalc",
      "opt_runner" }

\* expanded_param_vec[numpy.where(free_list)]
FreeSubset(full, mask) ==
    LET idx == Where(mask) IN [k \in 1..Len(idx) |-> full[idx[k]]]

\* pose_guess_arr of every shape around the expected (NumGroups, 6)
PoseGuesses ==
    { [pose |-> [g \in 1..n |-> Zeros(c)], pose_cols |-> c] :
        n \in 0..(NumGroups + 1), c \in (PoseLen - 1)..(PoseLen + 1) }

\* a call opt_runner(robot_params_dict, pose_guess_arr, free_dict, multisensors)
InitRunner ==
    /\ \E pr \in [1..NumParams -> 0..MaxVal], fm \in FreeMasks, pg \in PoseGuesses :
          args = [params |-> pr, free |-> fm, pose |-> pg.pose,
                  pose_cols |-> pg.pose_cols]
    /\ rpc = "start"
    /\ free = <<>> /\ expanded = <<>> /\ robot = <<>>
    /\ scfg = [s \in SensorIds |-> <<>>]
    /\ pc = "idle"
    /\ vec = <<>> /\ optp = <<>> /\ poseArr = <<>> /\ J = <<>>
    /\ gi = 0 /\ sk = 0 /\ cols = <<>> /\ x0 = <<>> /\ dx = <<>>
    /\ f0 = <<>> /\ Jt = <<>>
    /\ lastEval = NoEval
    /\ touched = FALSE
    /\ ret = NoRet
    /\ lastErr = NoErr

\* lines 215-218: configure the model, construct the engine
RunnerConstruct ==
    /\ rpc = "start"
    /\ robot' = args.params
    /\ expanded' = args.params
    /\ free' = args.free
    /\ rpc' = "constructed"
    /\ UNCHANGED << scfg, pc, frame, lastEval, touched, ret, lastErr, args >>

\* lines 221-223: the free subset of the deflated model
RunnerGuess ==
    /\ rpc = "constructed"
    /\ optp' = FreeSubset(robot, free)
    /\ rpc' = "guessed"
    /\ UNCHANGED << free, expanded, robot, scfg, pc, vec, poseArr, J, gi, sk,
                    cols, x0, dx, f0, Jt, lastEval, touched, ret, lastErr, args >>

\* lines 225-226: the two asserts on pose_guess_arr.shape
RunnerAssert ==
    /\ rpc = "guessed"
    /\ rpc' = IF args.pose_cols = PoseLen /\ Len(args.pose) = NumGroups
              THEN "asserted" ELSE "AssertionError"
    /\ UNCHANGED << free, expanded, robot, scfg, pc, frame, lastEval, touched,
                    ret, lastErr, args >>

\* line 227: opt_pose_vec = reshape(pose_guess_arr, [-1]); the bare name
\* reshape is looked up among the module's globals
RunnerFlatten ==
    /\ rpc = "asserted"
    /\ IF "reshape" \in ModuleGlobals
       THEN /\ rpc' = "flattened"
            /\ vec' = optp \o Flatten(args.pose)
       ELSE /\ rpc' = "NameError"
            /\ vec' = vec
    /\ UNCHANGED << free, expanded, robot, scfg, pc, optp, poseArr, J, gi, sk,
                    cols, x0, dx, f0, Jt, lastEval, touched, ret, lastErr, args >>

NextRunner ==
    \/ RunnerConstruct
    \/ RunnerGuess
    \/ RunnerAssert
    \/ RunnerFlatten

SpecRunner == InitRunner /\ [][NextRunner]_vars

(* ------------------------------ properties ----------------------------- *)
\* rows of Observation Group j, rows of its k-th sensor, pose columns of
\* group i (1-based)
GroupRows(j) == (ms_start_row(j) + 1)..ms_end_row(j)
SensorRows(j, k) ==
    (ms_start_row(j) + s_start_row(j, k) + 1)..(ms_start_row(j) + s_end_row(j, k))
PoseCols(i) == (opt_param_len + PoseLen * (i - 1) + 1)..(opt_param_len + PoseLen * i)

\* the full vector a free subset stands for: the construction-time vector
\* with the n-th free position replaced by the n-th entry of sub
Expansion(sub) ==
    [p \in 1..NumParams |->
        IF free[p] THEN sub[Cardinality({q \in 1..p : free[q]})]
        ELSE RobotParams0[p]]

\* m is zero in the rows of every group outside the free-parameter columns
\* and the group's own pose block
BlockDiagonal(m) ==
    \A j \in 1..NumGroups : \A r \in GroupRows(j) : \A c \in 1..Len(m[r]) :
        (c > opt_param_len /\ c \notin PoseCols(j)) => m[r][c] = 0

\* C1: in the Jacobian under construction and in every returned Jacobian,
\* the rows of group j are zero in the 6 pose columns of every other group
\* i, and more generally everywhere outside the free-parameter columns and
\* group j's own pose block.
C1_BlockDiagonal ==
    /\ ret.kind = "jacobian" =>
          /\ BlockDiagonal(ret.value)
          /\ \A i, j \in 1..NumGroups : i # j =>
                \A r \in GroupRows(j) : \A c \in PoseCols(i) :
                    ret.value[r][c] = 0
    /\ pc # "idle" => BlockDiagonal(J)

\* a Jacobian was returned whose two pose blocks are both filled in
C1_Witness ==
    /\ ret.kind = "jacobian"
    /\ \A j \in 1..NumGroups : \A r \in GroupRows(j) : \A c \in PoseCols(j) :
          ret.value[r][c] # 0

\* C2: in every returned Jacobian, each free-parameter column whose
\* parameter is not in a sensor's sparsity mask is zero in that sensor's
\* rows, and the parameter loop only ever perturbs free columns the sensor's
\* sparsity mask flags.
C2_SparsityColumnsZero ==
    /\ ret.kind = "jacobian" =>
          \A j \in 1..NumGroups : \A k \in 1..Len(Multisensors[j].sensors) :
              \A r \in SensorRows(j, k) : \A c \in 1..opt_param_len :
                  Where(free)[c] \notin SensorSparsity[Multisensors[j].sensors[k]]
                      => ret.value[r][c] = 0
    /\ lastEval.loop = "param" =>
          Where(free)[lastEval.i] \in SensorSparsity[CurSensor]

\* a Jacobian was returned in which the first sensor has a flagged free
\* column that is non-zero and an unflagged free column
C2_Witness ==
    /\ ret.kind = "jacobian"
    /\ opt_param_len = 2
    /\ ret.value[1][1] # 0
    /\ ret.value[1][2] = 0

\* C3: every returned Jacobian has totalResidualRows rows and
\* numFreeParams + 6*numGroups columns.
C3_JacobianShape ==
    ret.kind = "jacobian" =>
        /\ Len(ret.value) = SumSeq(ms_r_len)
        /\ \A r \in 1..Len(ret.value) :
              Len(ret.value[r]) = opt_param_len + PoseLen * NumGroups

\* C4: a call of calculate_full_param_vec returns a full-length vector that
\* equals the cached baseline at every non-free position and whose free
\* positions, read in order, are the subset passed; the call changes neither
\* the cached baseline, nor the Parameter Model, nor any sensor.
C4_FullParamVec ==
    [][ (pc = "idle" /\ ret'.kind = "full_vec") =>
          /\ Len(ret'.value) = NumParams
          /\ \A p \in 1..NumParams : ~free[p] => ret'.value[p] = expanded[p]
          /\ FreeSubset(ret'.value, free) = ret'.arg
          /\ expanded' = expanded
          /\ robot' = robot
          /\ scfg' = scfg ]_vars

\* calculate_full_param_vec returned a vector that differs from the baseline
\* under a mask with both free and fixed positions
C4_Witness ==
    /\ ret.kind = "full_vec"
    /\ opt_param_len = 1
    /\ ret.value # expanded

\* C5: a call of calculate_error or calculate_jacobian with a vector whose
\* length is not numFreeParams + 6*numGroups ends in a raise, and the raise
\* comes before the Parameter Model or any sensor is written.
C5_MalformedRejected ==
    (ret.kind \in {"residual", "jacobian", "raise"}
        /\ Len(ret.arg) # opt_param_len + PoseLen * NumGroups)
    => (ret.kind = "raise" /\ ~touched)

\* C6: a calculate_error call with the vector of the previous
\* calculate_error call, no call with another vector in between, returns the
\* same residual vector.
C6_ErrorIdempotent ==
    [][ (pc = "idle" /\ pc' = "idle" /\ ret'.kind = "residual"
            /\ lastErr.set /\ lastErr.arg = ret'.arg)
        => ret'.value = lastErr.value ]_vars

\* calculate_error has returned a second time for the same vector
C6_Witness == lastErr.set /\ lastErr.again /\ opt_param_len > 0

\* C7: every vector returned by calculate_error has the length of the sum of
\* all group residual lengths, the row count of the Jacobian.
C7_ResidualLength ==
    ret.kind = "residual" => Len(ret.value) = SumSeq(ms_r_len)

\* C8: called with a pose-guess array of one 6-column row per Observation
\* Group, opt_runner does not end in an exception.
C8_RunnerCompletes ==
    (args.pose_cols = PoseLen /\ Len(args.pose) = NumGroups)
    => rpc \notin {"AssertionError", "NameError"}

\* C9: every perturbed evaluation uses the base vector of its loop with
\* exactly index i raised by epsilon; in the parameter loop the model and the
\* sensor config of that evaluation are the expansion of that vector; between
\* two passes of a loop dx is all zero.
C9_OnePerturbationAtATime ==
    /\ lastEval.loop # "none" =>
          /\ lastEval.x0 = (IF lastEval.loop = "param" THEN optp ELSE poseArr[gi])
          /\ lastEval.test = [lastEval.x0 EXCEPT ![lastEval.i] = @ + Epsilon]
    /\ lastEval.loop = "param" =>
          /\ lastEval.model =
                Expansion([lastEval.x0 EXCEPT ![lastEval.i] = @ + Epsilon])
          /\ lastEval.cfg = lastEval.model
    /\ pc \in {"jac_perturb", "jac_pose_perturb"} => dx = Zeros(Len(dx))

\* the second flagged column of a sensor has been perturbed after the first
C9_Witness ==
    /\ pc = "jac_perturb"
    /\ lastEval.loop = "param"
    /\ lastEval.i = 2
    /\ CurSensor = 3
    /\ opt_param_len = 2

====
